---- MODULE Spec2Model ----
(***************************************************************************)
(* httping (main.go): the run loop of main, sendRequest with its           *)
(* httptrace hooks, the interrupt listener goroutine and the pacing wait.  *)
(*                                                                         *)
(* Durations are time.Duration values (int64 nanoseconds).  The elapsed    *)
(* time of a request is a small natural number of nanoseconds; the pacing  *)
(* arithmetic of line 161 is done on 64-bit two's complement words, kept   *)
(* as sequences of eight base-256 limbs (least significant first), so the  *)
(* uint -> int64 conversion and the wrap-around of the multiplication are  *)
(* the ones of the Go build.                                               *)
(***************************************************************************)
EXTENDS Integers, Sequences, FiniteSets, TLC

\* ---------------------------------------------------------------- bounds
\* cap on the number of sendRequest calls of one run (count = 0 never
\* stops), and the largest value of the -count flag that is explored
MaxAttempts == 2

\* ------------------------------------------------------ 64-bit arithmetic
\* limbs of an int64 / uint64 word (time.Duration is an int64)
WordLimbs == 8

Pow256(k) == IF k = 0 THEN 1 ELSE IF k = 1 THEN 256 ELSE IF k = 2 THEN 65536 ELSE 16777216

\* a natural number below 2^31 as a word of L limbs
FromNat(n, L) == [i \in 1..L |-> IF i <= 4 THEN (n \div Pow256(i - 1)) % 256 ELSE 0]

\* zero extension (or truncation) of a word to L limbs
Resize(x, L) == [i \in 1..L |-> IF i <= Len(x) THEN x[i] ELSE 0]

ZeroWord(L) == [i \in 1..L |-> 0]

\* the sign bit of a two's complement word
IsNegative(x) == x[Len(x)] >= 128

RECURSIVE MulCarry(_, _, _)
\* carry into limb i of x * k
MulCarry(x, k, i) == IF i = 1 THEN 0 ELSE (x[i - 1] * k + MulCarry(x, k, i - 1)) \div 256

\* x * k modulo 2^(8 * Len(x)), for a factor k < 2^16
MulSmall(x, k) == [i \in 1..Len(x) |-> (x[i] * k + MulCarry(x, k, i)) % 256]

RECURSIVE SubBorrow(_, _, _)
\* borrow into limb i of x - y
SubBorrow(x, y, i) == IF i = 1 THEN 0 ELSE IF x[i - 1] - y[i - 1] - SubBorrow(x, y, i - 1) < 0 THEN 1 ELSE 0

\* x - y modulo 2^(8 * Len(x))
SubWord(x, y) == [i \in 1..Len(x) |-> (x[i] - y[i] - SubBorrow(x, y, i) + 256) % 256]

\* x * time.Millisecond: 1000 * 1000 nanoseconds, applied as two factors of 1000
MulMillisecond(x) == MulSmall(MulSmall(x, 1000), 1000)

\* max(x, 0) on a signed word
MaxZero(x) == IF IsNegative(x) THEN ZeroWord(Len(x)) ELSE x

\* ------------------------------------------------------------ the flags
\* values of the -delay flag (uint milliseconds) that are explored: 0, the
\* default 1000, and 10000000000000 (10^13), whose nanoseconds exceed the
\* int64 range
DelayDefault == FromNat(1000, WordLimbs)
DelayHuge == <<0, 160, 114, 78, 24, 9, 0, 0>>
DelayValues == {ZeroWord(WordLimbs), DelayDefault, DelayHuge}

\* the target URLs that are explored: one that url.Parse rejects (such as
\* "http://[::1"), one that parses but that the transport refuses before
\* it looks at the context (no http or https scheme, as "example.com", or
\* no host), and an https URL with a host name
TargetUrls == {"unparsable", "unsupported", "https"}

\* readings of time.Now().Sub(startTime) in nanoseconds: 400ms and 1200ms
ElapsedValues == {400000000, 1200000000}

\* float64(d) / float64(time.Millisecond): the milliseconds of a duration,
\* whole part and remaining nanoseconds
ToMilliseconds(d) == [whole |-> d \div 1000000, frac |-> d % 1000000]

\* --------------------------------------------------------- error strings
\* a string is the sequence of its characters; the longest URL and the
\* longest message of an error that are explored
MaxText == 3

\* the strings of at most n characters of an alphabet
Texts(alphabet, n) == UNION {[1..k -> alphabet] : k \in 0..n}

\* strings.HasPrefix(s, prefix)
HasPrefix(s, prefix) == Len(s) >= Len(prefix) /\ SubSeq(s, 1, Len(prefix)) = prefix

\* the places (from 1) at which substr occurs in s
Occurrences(s, substr) == {i \in 1..(Len(s) - Len(substr) + 1) : SubSeq(s, i, i + Len(substr) - 1) = substr}

\* strings.Index(s, substr): the first place of substr in s, from 0, or -1
Index(s, substr) ==
    IF Occurrences(s, substr) = {} THEN -1
    ELSE (CHOOSE i \in Occurrences(s, substr) : \A j \in Occurrences(s, substr) : i <= j) - 1

\* lines 133-135: the trimming of errMsg
TrimErrMsg(s) ==
    IF HasPrefix(s, <<"G", "e", "t", " ">>)
      THEN SubSeq(s, Index(s, <<":", " ">>) + 2 + 1, Len(s))
      ELSE s

\* an error value: the *url.Error that client.Do returns (Op is "Get", the
\* method of line 240), or the bare error that io.Copy returns
NoError == [Wrapped |-> FALSE, URL |-> <<>>, Err |-> <<>>]
UrlError(url, msg) == [Wrapped |-> TRUE, URL |-> url, Err |-> msg]
BareError(msg) == [Wrapped |-> FALSE, URL |-> <<>>, Err |-> msg]

\* line 128, err.Error(): a *url.Error prints as Op "URL": Err
ErrorString(e) ==
    IF e.Wrapped
      THEN <<"G", "e", "t", " ", "\"">> \o e.URL \o <<"\"", ":", " ">> \o e.Err
      ELSE e.Err

\* the error value of a return of sendRequest with the error kind e: line
\* 246 returns the *url.Error of client.Do, line 259 the error of io.Copy
ErrorOf(st, e) ==
    IF e = "nil" THEN NoError
    ELSE IF st.Status # "" THEN BareError(<<"m">>)
    ELSE UrlError(<<"u">>, <<"m">>)

\* the URLs and the messages of the errors whose trimming is explored: a
\* URL may hold a colon and a space (in its query), and so may a message
UrlTexts == {<<"u">> \o t : t \in Texts({"u", ":", " "}, MaxText - 1)}
MessageTexts == {<<"m">> \o t : t \in Texts({"m", ":", " "}, MaxText - 1)}
ErrorValues == {UrlError(u, m) : u \in UrlTexts, m \in MessageTexts} \cup {BareError(m) : m \in MessageTexts}

\* ------------------------------------------------------------- the state
VARIABLES
    targetUrl,        \* flag.Arg(0), by what the client makes of it
    count,            \* -count
    delay,            \* -delay, a uint64 word
    noNewConnCount,   \* -no-new-conn-count
    enableKeepAlive,  \* -enable-keep-alive
    pc,               \* position of the main goroutine
    statistics,       \* the *Statistics of the current sendRequest call
    err,              \* the err of the current sendRequest call
    requests, successful, failed,
    totals,           \* []float64 of counted totals
    lines,            \* number of result lines printed (line 138)
    wait,             \* the argument of time.After at line 161, an int64 word
    timer,            \* the timer of time.After
    woken,            \* which case readied the goroutine parked in the select
    sigChan,          \* whether channel c holds a signal
    listener,         \* position of the goroutine of lines 93-96
    ctxDone,          \* whether ctx was canceled
    phase,            \* progress of client.Do
    dial,             \* progress of the transport's dial goroutine
    pool,             \* whether the transport keeps a connection for reuse
    started,          \* number of sendRequest calls so far
    summary,          \* what lines 179-194 printed, once they ran
    errDetail,        \* the error value behind err: a *url.Error or a bare error
    errMsg,           \* errMsg of line 125 as line 148 prints it
    afterCancel       \* history: the call at hand was made after cancel()

vars == <<targetUrl, count, delay, noNewConnCount, enableKeepAlive, pc,
          statistics, err, requests, successful, failed, totals, lines, wait,
          timer, woken, sigChan, listener, ctxDone, phase, dial, pool, started,
          summary, errDetail, errMsg, afterCancel>>

flags == <<targetUrl, count, delay, noNewConnCount, enableKeepAlive>>
counters == <<requests, successful, failed, totals>>
signal == <<sigChan, listener, ctxDone>>
message == <<errDetail, errMsg>>

\* an optional field: nil is the empty sequence, a value v is <<v>>
Nil == <<>>
Some(v) == <<v>>

\* &Statistics{}
NewStatistics ==
    [DNS |-> Nil, Connect |-> Nil, TLSHandshake |-> Nil, TTFB |-> Nil,
     Download |-> Nil, Total |-> Nil, Reused |-> Nil, Proto |-> "", Status |-> ""]

Init ==
    /\ targetUrl \in TargetUrls
    /\ count \in 0..MaxAttempts
    /\ delay \in DelayValues
    /\ noNewConnCount \in BOOLEAN
    /\ enableKeepAlive \in BOOLEAN
    /\ pc = "loop"
    /\ statistics = NewStatistics
    /\ err = "nil"
    /\ requests = 0 /\ successful = 0 /\ failed = 0
    /\ totals = <<>>
    /\ lines = 0
    /\ wait = ZeroWord(WordLimbs)
    /\ timer = "off"
    /\ woken = "none"
    /\ sigChan = FALSE
    /\ listener = "waiting"
    /\ ctxDone = FALSE
    /\ phase = "none"
    /\ dial = "off"
    /\ pool = "none"
    /\ started = 0
    /\ summary = Nil
    /\ errDetail = NoError
    /\ errMsg = <<>>
    /\ afterCancel = FALSE

\* the process is alive: main has neither returned nor panicked
Running == pc \notin {"done", "panic"}

\* ------------------------------------------------------------ sendRequest
\* Return without the deferred function
Return_NoDefer(st, e) ==
    /\ statistics' = st
    /\ err' = e
    /\ errDetail' = ErrorOf(st, e)
    /\ pc' = "returned"
    /\ phase' = "none"

\* the deferred function of lines 201-204 and the return to line 105
Return(st, e) ==
    /\ \E diff \in ElapsedValues : statistics' = [st EXCEPT !.Total = Some(diff)]
    /\ err' = e
    /\ errDetail' = ErrorOf(st, e)
    /\ pc' = "returned"
    /\ phase' = "none"

\* the calls of sendRequest that are explored: MaxAttempts of them, and one
\* more once the context is canceled
CanStart == started < MaxAttempts \/ (ctxDone /\ started = MaxAttempts)

\* SendRequest with the context made anew for every call
SendRequest_FreshContext ==
    /\ pc = "loop"
    /\ targetUrl # "unparsable"
    /\ CanStart
    /\ started' = started + 1
    /\ afterCancel' = ctxDone
    /\ statistics' = NewStatistics
    /\ err' = "nil"
    /\ errDetail' = NoError
    /\ errMsg' = <<>>
    /\ pc' = "do"
    /\ phase' = "roundtrip"
    /\ dial' = "off"
    /\ pool' = pool
    /\ ctxDone' = FALSE
    /\ UNCHANGED <<flags, summary, counters, lines, wait, timer, woken, sigChan, listener>>

\* line 105 and lines 198-243 up to the call of client.Do with a request:
\* a fresh Statistics; the hooks of a dial that an earlier call left behind
\* belong to that call's Statistics, and its connection may reach the pool
SendRequest ==
    /\ pc = "loop"
    /\ targetUrl # "unparsable"
    /\ CanStart
    /\ started' = started + 1
    /\ afterCancel' = ctxDone
    /\ statistics' = NewStatistics
    /\ err' = "nil"
    /\ errDetail' = NoError
    /\ errMsg' = <<>>
    /\ pc' = "do"
    /\ phase' = "roundtrip"
    /\ dial' = "off"
    /\ pool' \in {pool} \cup (IF dial # "off" /\ enableKeepAlive THEN {"kept"} ELSE {})
    /\ UNCHANGED <<flags, summary, counters, lines, wait, timer, woken, signal>>

\* lines 240-243 when the URL does not parse: NewRequestWithContext returns a
\* nil request, its error is overwritten, and client.Do(nil) dereferences
\* it; the deferred function runs and the panic ends the process
SendRequestNilRequest ==
    /\ pc = "loop"
    /\ targetUrl = "unparsable"
    /\ CanStart
    /\ started' = started + 1
    /\ afterCancel' = ctxDone
    /\ \E diff \in ElapsedValues : statistics' = [NewStatistics EXCEPT !.Total = Some(diff)]
    /\ pc' = "panic"
    /\ UNCHANGED <<flags, summary, message, counters, lines, err, wait, timer, woken, signal, phase, dial, pool>>

\* line 243, the transport refuses the URL (unsupported protocol scheme,
\* no Host in request URL); it does so before it looks at the context
RoundTripRefused ==
    /\ pc = "do" /\ phase = "roundtrip"
    /\ targetUrl = "unsupported"
    /\ Return(statistics, "failed")
    /\ UNCHANGED <<flags, afterCancel, summary, errMsg, counters, lines, wait, timer, woken, signal, dial, pool, started>>

\* line 243, the transport's next step: a context that is already done
\* ends the round trip with its error before anything is tried
RoundTripStart ==
    /\ pc = "do" /\ phase = "roundtrip"
    /\ targetUrl = "https"
    /\ IF ctxDone
         THEN Return(statistics, "canceled")
         ELSE /\ phase' = "getconn"
              /\ UNCHANGED <<statistics, err, errDetail, pc>>
    /\ UNCHANGED <<flags, afterCancel, summary, errMsg, counters, lines, wait, timer, woken, signal, dial, pool, started>>

\* line 243, context canceled while client.Do is waiting (for a
\* connection, for the response)
RoundTripCanceled ==
    /\ pc = "do" /\ phase # "roundtrip"
    /\ ctxDone
    /\ Return(statistics, "canceled")
    /\ UNCHANGED <<flags, afterCancel, summary, errMsg, counters, lines, wait, timer, woken, signal, dial, pool, started>>

\* line 243, client.Do fails otherwise: Client.Timeout (line 84) expires, or
\* the connection breaks before the response headers
RoundTripFails ==
    /\ pc = "do" /\ phase \in {"getconn", "conn", "firstbyte"}
    /\ Return(statistics, "failed")
    /\ UNCHANGED <<flags, afterCancel, summary, errMsg, counters, lines, wait, timer, woken, signal, dial, pool, started>>

\* GotConnReused without the assignment of line 235
GotConnReused_Unset ==
    /\ pc = "do" /\ phase = "getconn"
    /\ pool = "kept"
    /\ pool' = "none"
    /\ phase' = "conn"
    /\ UNCHANGED <<flags, afterCancel, summary, message, counters, lines, statistics, err, pc, wait, timer, woken, signal, dial, started>>

\* lines 234-236, GotConn with a kept-alive connection: it is idle in the
\* pool when the request asks, or the read loop of the previous request
\* puts it there while this request waits for its dial
GotConnReused ==
    /\ pc = "do" /\ phase = "getconn"
    /\ pool = "kept"
    /\ statistics' = [statistics EXCEPT !.Reused = Some(TRUE)]
    /\ pool' = "none"
    /\ phase' = "conn"
    /\ UNCHANGED <<flags, afterCancel, summary, message, counters, lines, err, pc, wait, timer, woken, signal, dial, started>>

\* the transport starts a dial goroutine when it finds no idle connection
\* (the URL is an https URL with a host name: lookup, connect, handshake)
DialStart ==
    /\ pc = "do" /\ phase = "getconn"
    /\ dial = "off"
    /\ dial' = "dns"
    /\ UNCHANGED <<flags, afterCancel, summary, message, counters, lines, statistics, err, pc, wait, timer, woken, signal, phase, pool, started>>

\* lines 212-215, DNSDone (with or without an error)
DNSDone ==
    /\ Running /\ dial = "dns"
    /\ statistics' = [statistics EXCEPT !.DNS = Some("d")]
    /\ dial' \in {"connect", "failed"}
    /\ UNCHANGED <<flags, afterCancel, summary, message, counters, lines, err, pc, wait, timer, woken, signal, phase, pool, started>>

\* lines 219-222, ConnectDone (with or without an error)
ConnectDone ==
    /\ Running /\ dial = "connect"
    /\ statistics' = [statistics EXCEPT !.Connect = Some("d")]
    /\ dial' \in {"tls", "failed"}
    /\ UNCHANGED <<flags, afterCancel, summary, message, counters, lines, err, pc, wait, timer, woken, signal, phase, pool, started>>

\* lines 226-229, TLSHandshakeDone (with or without an error)
TLSHandshakeDone ==
    /\ Running /\ dial = "tls"
    /\ statistics' = [statistics EXCEPT !.TLSHandshake = Some("d")]
    /\ dial' \in {"ready", "failed"}
    /\ UNCHANGED <<flags, afterCancel, summary, message, counters, lines, err, pc, wait, timer, woken, signal, phase, pool, started>>

\* GotConnNew without the assignment of line 235
GotConnNew_Unset ==
    /\ pc = "do" /\ phase = "getconn"
    /\ dial = "ready"
    /\ dial' = "off"
    /\ phase' = "conn"
    /\ UNCHANGED <<flags, afterCancel, summary, message, counters, lines, statistics, err, pc, wait, timer, woken, signal, pool, started>>

\* lines 234-236, GotConn with the connection the dial made
GotConnNew ==
    /\ pc = "do" /\ phase = "getconn"
    /\ dial = "ready"
    /\ statistics' = [statistics EXCEPT !.Reused = Some(FALSE)]
    /\ dial' = "off"
    /\ phase' = "conn"
    /\ UNCHANGED <<flags, afterCancel, summary, message, counters, lines, err, pc, wait, timer, woken, signal, pool, started>>

\* line 243, the dial failed and client.Do returns its error
DialFails ==
    /\ pc = "do" /\ phase = "getconn"
    /\ dial = "failed"
    /\ dial' = "off"
    /\ Return(statistics, "failed")
    /\ UNCHANGED <<flags, afterCancel, summary, errMsg, counters, lines, wait, timer, woken, signal, pool, started>>

\* a dial that ends when its request no longer waits for it: the
\* connection goes to the idle pool (keep-alive) or is closed
DialUnused ==
    /\ Running /\ dial \in {"ready", "failed"}
    /\ ~(pc = "do" /\ phase = "getconn")
    /\ dial' = "off"
    /\ pool' = IF dial = "ready" /\ enableKeepAlive THEN "kept" ELSE pool
    /\ UNCHANGED <<flags, afterCancel, summary, message, counters, lines, statistics, err, pc, wait, timer, woken, signal, phase, started>>

\* lines 230-233, GotFirstResponseByte
GotFirstResponseByte ==
    /\ pc = "do" /\ phase = "conn"
    /\ statistics' = [statistics EXCEPT !.TTFB = Some("d")]
    /\ phase' = "firstbyte"
    /\ UNCHANGED <<flags, afterCancel, summary, message, counters, lines, err, pc, wait, timer, woken, signal, dial, pool, started>>

\* lines 243-254, client.Do returns the response
DoReturns ==
    /\ pc = "do" /\ phase = "firstbyte"
    /\ statistics' = [statistics EXCEPT !.Proto = "HTTP/1.1", !.Status = "200 OK"]
    /\ pc' = "body"
    /\ phase' = "body"
    /\ UNCHANGED <<flags, afterCancel, summary, message, counters, lines, err, wait, timer, woken, signal, dial, pool, started>>

\* lines 256-264, the body is drained
CopyDone ==
    /\ pc = "body"
    /\ Return([statistics EXCEPT !.Download = Some("d")], "nil")
    /\ pool' = IF enableKeepAlive THEN "kept" ELSE pool
    /\ UNCHANGED <<flags, afterCancel, summary, errMsg, counters, lines, wait, timer, woken, signal, dial, started>>

\* CopyFails with the duration of the failed download recorded
CopyFails_Download ==
    /\ pc = "body"
    /\ \E e \in {"failed"} \cup (IF ctxDone THEN {"canceled"} ELSE {}) :
          Return([statistics EXCEPT !.Download = Some("d")], e)
    /\ UNCHANGED <<flags, afterCancel, summary, errMsg, counters, lines, wait, timer, woken, signal, dial, pool, started>>

\* lines 256-260, io.Copy fails: the connection breaks, the timeout expires,
\* or the context is canceled
CopyFails ==
    /\ pc = "body"
    /\ \E e \in {"failed"} \cup (IF ctxDone THEN {"canceled"} ELSE {}) : Return(statistics, e)
    /\ UNCHANGED <<flags, afterCancel, summary, errMsg, counters, lines, wait, timer, woken, signal, dial, pool, started>>

\* ------------------------------------------------------------------ main
\* the condition of line 120 with the flag ignored
CountsTowardTotals_Always(st) == TRUE

\* the condition of line 120; dereferencing a nil Reused panics
CountsTowardTotals(st) == ~(noNewConnCount /\ ~st.Reused[1])

\* lines 112-123: the counters and the totals of an attempt that counts
CountAttempt ==
    /\ requests' = requests + 1
    /\ IF err # "nil"
         THEN /\ failed' = failed + 1
              /\ pc' = "print"
              /\ UNCHANGED <<successful, totals>>
         ELSE /\ successful' = successful + 1
              /\ failed' = failed
              /\ IF noNewConnCount /\ statistics.Reused = Nil
                   THEN /\ pc' = "panic"
                        /\ totals' = totals
                   ELSE /\ pc' = "print"
                        /\ totals' = IF CountsTowardTotals(statistics)
                                       THEN Append(totals, ToMilliseconds(statistics.Total[1]))
                                       ELSE totals

\* HandleResult without the test of line 108
HandleResult_NoCancelTest ==
    /\ pc = "returned"
    /\ CountAttempt
    /\ UNCHANGED <<flags, afterCancel, summary, message, lines, statistics, err, wait, timer, woken, signal, phase, dial, pool, started>>

\* HandleResult with line 112 moved above the test of line 108
HandleResult_CountFirst ==
    /\ pc = "returned"
    /\ IF err = "canceled"
         THEN /\ requests' = requests + 1
              /\ pc' = "done"
              /\ UNCHANGED <<successful, failed, totals>>
         ELSE CountAttempt
    /\ UNCHANGED <<flags, afterCancel, summary, message, lines, statistics, err, wait, timer, woken, signal, phase, dial, pool, started>>

\* HandleResult with a failed request skipping the rest of the iteration
HandleResult_ContinueOnError ==
    /\ pc = "returned"
    /\ IF err = "canceled"
         THEN /\ pc' = "done"
              /\ UNCHANGED counters
         ELSE IF err # "nil"
              THEN /\ requests' = requests + 1
                   /\ failed' = failed + 1
                   /\ pc' = "loop"
                   /\ UNCHANGED <<successful, totals>>
              ELSE CountAttempt
    /\ UNCHANGED <<flags, afterCancel, summary, message, lines, statistics, err, wait, timer, woken, signal, phase, dial, pool, started>>

\* lines 108-123: the cancellation test, the counters and the totals
HandleResult ==
    /\ pc = "returned"
    /\ IF err = "canceled"
         THEN /\ pc' = "done"
              /\ UNCHANGED counters
         ELSE CountAttempt
    /\ UNCHANGED <<flags, afterCancel, summary, message, lines, statistics, err, wait, timer, woken, signal, phase, dial, pool, started>>

\* PrintLine with the loop ended by a failed request
PrintLine_StopOnError ==
    /\ pc = "print"
    /\ errMsg' = IF err # "nil" THEN TrimErrMsg(ErrorString(errDetail)) ELSE <<>>
    /\ lines' = lines + 1
    /\ afterCancel' = FALSE
    /\ pc' = IF requests = count \/ err # "nil" THEN "done" ELSE "select"
    /\ UNCHANGED <<flags, summary, errDetail, counters, statistics, err, wait, timer, woken, signal, phase, dial, pool, started>>

\* PrintLine with the test of line 152 as requests >= count
PrintLine_AtLeast ==
    /\ pc = "print"
    /\ errMsg' = IF err # "nil" THEN TrimErrMsg(ErrorString(errDetail)) ELSE <<>>
    /\ lines' = lines + 1
    /\ afterCancel' = FALSE
    /\ pc' = IF requests >= count THEN "done" ELSE "select"
    /\ UNCHANGED <<flags, summary, errDetail, counters, statistics, err, wait, timer, woken, signal, phase, dial, pool, started>>

\* lines 125-154: the result line and the test of the count limit
PrintLine ==
    /\ pc = "print"
    /\ errMsg' = IF err # "nil" THEN TrimErrMsg(ErrorString(errDetail)) ELSE <<>>
    /\ lines' = lines + 1
    /\ afterCancel' = FALSE
    /\ pc' = IF requests = count THEN "done" ELSE "select"
    /\ UNCHANGED <<flags, summary, errDetail, counters, statistics, err, wait, timer, woken, signal, phase, dial, pool, started>>

\* the argument of time.After at line 161:
\* max(time.Duration(delay)*time.Millisecond - *statistics.Total, 0)
PacingWait(d, total) == MaxZero(SubWord(MulMillisecond(d), FromNat(total, WordLimbs)))

\* lines 156-161: the select evaluates time.After, which starts the timer
SelectEnter ==
    /\ pc = "select"
    /\ wait' = PacingWait(delay, statistics.Total[1])
    /\ timer' = "armed"
    /\ pc' = "poll"
    /\ UNCHANGED <<flags, afterCancel, summary, message, counters, lines, statistics, err, woken, signal, phase, dial, pool, started>>

\* line 158: the select looks at its two channels; when both are ready it
\* takes either, when none is it parks the goroutine.  Leaving the select
\* for the next iteration drops the timer and the duration it was given
SelectPoll ==
    /\ pc = "poll"
    /\ \/ /\ ctxDone
          /\ pc' = "done"
          /\ UNCHANGED <<woken, timer, wait>>
       \/ /\ timer = "fired"
          /\ pc' = "loop"
          /\ timer' = "off"
          /\ wait' = ZeroWord(WordLimbs)
          /\ UNCHANGED woken
       \/ /\ ~ctxDone /\ timer # "fired"
          /\ pc' = "parked"
          /\ woken' = "none"
          /\ UNCHANGED <<timer, wait>>
    /\ UNCHANGED <<flags, afterCancel, summary, message, counters, lines, statistics, err, signal, phase, dial, pool, started>>

\* SelectWake without the break of lines 164-166
SelectWake_NoBreak ==
    /\ pc = "parked"
    /\ woken # "none"
    /\ pc' = "loop"
    /\ timer' = "off"
    /\ wait' = ZeroWord(WordLimbs)
    /\ woken' = "none"
    /\ UNCHANGED <<flags, afterCancel, summary, message, counters, lines, statistics, err, signal, phase, dial, pool, started>>

\* lines 158-166: the parked goroutine resumes with the case that readied it
SelectWake ==
    /\ pc = "parked"
    /\ woken # "none"
    /\ IF woken = "ctx"
         THEN /\ pc' = "done"
              /\ UNCHANGED <<timer, wait, woken>>
         ELSE /\ pc' = "loop"
              /\ timer' = "off"
              /\ wait' = ZeroWord(WordLimbs)
              /\ woken' = "none"
    /\ UNCHANGED <<flags, afterCancel, summary, message, counters, lines, statistics, err, signal, phase, dial, pool, started>>

\* the timer of time.After expires; it readies a goroutine parked on it
TimerFires ==
    /\ Running /\ timer = "armed"
    /\ pc \in {"poll", "parked"}
    /\ timer' = "fired"
    /\ woken' = IF pc = "parked" /\ woken = "none" THEN "timer" ELSE woken
    /\ UNCHANGED <<flags, afterCancel, summary, message, counters, lines, statistics, err, pc, wait, signal, phase, dial, pool, started>>

\* ------------------------------------------------------ the final report
\* a value of totals in nanoseconds, to compare two of them
Nanoseconds(t) == t.whole * 1000000 + t.frac

\* lines 169-170: stats.Min and stats.Max of a sequence that is not empty
StatsMin(s) == CHOOSE x \in {s[i] : i \in 1..Len(s)} : \A j \in 1..Len(s) : Nanoseconds(x) <= Nanoseconds(s[j])
StatsMax(s) == CHOOSE x \in {s[i] : i \in 1..Len(s)} : \A j \in 1..Len(s) : Nanoseconds(x) >= Nanoseconds(s[j])

\* Report without the test of line 182: the statistics of an empty totals
\* are printed as zeros
Report_NoGuard ==
    /\ pc = "done" /\ summary = Nil
    /\ summary' = Some([Requests |-> <<requests, successful, failed>>,
                        Stats |-> IF Len(totals) > 0
                                    THEN Some([Min |-> StatsMin(totals), Max |-> StatsMax(totals)])
                                    ELSE Some([Min |-> ToMilliseconds(0), Max |-> ToMilliseconds(0)])])
    /\ UNCHANGED <<flags, afterCancel, message, counters, lines, statistics, err, pc, wait, timer, woken, signal, phase, dial, pool, started>>

\* lines 169-194, after the loop: the line of the three counters, and the
\* statistics of totals (of which the minimum and the maximum are kept
\* here) under the test of line 182
Report ==
    /\ pc = "done" /\ summary = Nil
    /\ summary' = Some([Requests |-> <<requests, successful, failed>>,
                        Stats |-> IF Len(totals) > 0
                                    THEN Some([Min |-> StatsMin(totals), Max |-> StatsMax(totals)])
                                    ELSE Nil])
    /\ UNCHANGED <<flags, afterCancel, message, counters, lines, statistics, err, pc, wait, timer, woken, signal, phase, dial, pool, started>>

\* ------------------------------------------------- the interrupt listener
\* lines 89-90: os.Interrupt is relayed to channel c (capacity 1) while the
\* listener has not taken a signal yet
Interrupt ==
    /\ Running
    /\ listener = "waiting" /\ ~sigChan
    /\ sigChan' = TRUE
    /\ UNCHANGED <<flags, afterCancel, summary, message, counters, lines, statistics, err, pc, wait, timer, woken, listener, ctxDone, phase, dial, pool, started>>

\* lines 93-96: the listener receives from c and calls cancel(), which
\* closes ctx.Done() and readies a goroutine parked on it
ListenerCancel ==
    /\ Running
    /\ listener = "waiting" /\ sigChan
    /\ sigChan' = FALSE
    /\ listener' = "exited"
    /\ ctxDone' = TRUE
    /\ woken' = IF pc = "parked" /\ woken = "none" THEN "ctx" ELSE woken
    /\ UNCHANGED <<flags, afterCancel, summary, message, counters, lines, statistics, err, pc, wait, timer, phase, dial, pool, started>>

Next ==
    \/ SendRequest
    \/ SendRequestNilRequest
    \/ RoundTripRefused
    \/ RoundTripStart
    \/ RoundTripCanceled
    \/ RoundTripFails
    \/ GotConnReused
    \/ DialStart
    \/ DNSDone
    \/ ConnectDone
    \/ TLSHandshakeDone
    \/ GotConnNew
    \/ DialFails
    \/ DialUnused
    \/ GotFirstResponseByte
    \/ DoReturns
    \/ CopyDone
    \/ CopyFails
    \/ HandleResult
    \/ PrintLine
    \/ SelectEnter
    \/ SelectPoll
    \/ SelectWake
    \/ TimerFires
    \/ Report
    \/ Interrupt
    \/ ListenerCancel

Spec == Init /\ [][Next]_vars

\* the steps of the main goroutine and those of the transport under it
Main ==
    \/ SendRequest \/ SendRequestNilRequest \/ HandleResult \/ PrintLine
    \/ SelectEnter \/ SelectPoll \/ SelectWake \/ Report

Transport ==
    \/ RoundTripRefused \/ RoundTripStart \/ RoundTripCanceled
    \/ RoundTripFails \/ GotConnReused
    \/ DialStart \/ DNSDone \/ ConnectDone \/ TLSHandshakeDone \/ GotConnNew
    \/ DialFails \/ DialUnused \/ GotFirstResponseByte \/ DoReturns
    \/ CopyDone \/ CopyFails

\* the runs with the default -delay and without -no-new-conn-count: the
\* two flags change the timer's duration and the totals, never the control
\* flow
FairInit == Init /\ delay = DelayDefault /\ ~noNewConnCount

\* the Go scheduler runs every runnable goroutine, timers expire, and the
\* transport ends every round trip (with a response or an error)
FairSpec ==
    /\ FairInit /\ [][Next]_vars
    /\ WF_vars(Main)
    /\ WF_vars(Transport)
    /\ WF_vars(TimerFires)
    /\ WF_vars(ListenerCancel)

\* the loop at line 125 of a run with -count 1 whose only request failed,
\* for every error value that is explored
TrimInit ==
    /\ targetUrl = "https" /\ count = 1 /\ delay = DelayDefault
    /\ noNewConnCount = FALSE /\ enableKeepAlive = FALSE
    /\ pc = "print"
    /\ err = "failed"
    /\ errDetail \in ErrorValues
    /\ errMsg = <<>>
    /\ statistics =
          IF errDetail.Wrapped
            THEN [NewStatistics EXCEPT !.Total = Some(400000000)]
            ELSE [DNS |-> Some("d"), Connect |-> Some("d"), TLSHandshake |-> Some("d"),
                  TTFB |-> Some("d"), Download |-> Nil, Total |-> Some(400000000),
                  Reused |-> Some(FALSE), Proto |-> "HTTP/1.1", Status |-> "200 OK"]
    /\ requests = 1 /\ successful = 0 /\ failed = 1
    /\ totals = <<>>
    /\ lines = 0
    /\ wait = ZeroWord(WordLimbs)
    /\ timer = "off"
    /\ woken = "none"
    /\ sigChan = FALSE
    /\ listener = "waiting"
    /\ ctxDone = FALSE
    /\ phase = "none"
    /\ dial = "off"
    /\ pool = "none"
    /\ started = 1
    /\ summary = Nil
    /\ afterCancel = FALSE

\* the result line and the report of such a run
TrimNext == PrintLine \/ Report
TrimSpec == TrimInit /\ [][TrimNext]_vars

\* ----------------------------------------------------------- properties
\* the step of lines 108-123 and the step of lines 125-154
HandleStep == pc = "returned" /\ pc' # "returned"
PrintStep == pc = "print" /\ pc' # "print"

\* what a step may do to the three counters
C1_CountersAction ==
    /\ HandleStep /\ err # "canceled" =>
          /\ requests' = requests + 1
          /\ \/ successful' = successful + 1 /\ failed' = failed
             \/ successful' = successful /\ failed' = failed + 1
    /\ ~(HandleStep /\ err # "canceled") => UNCHANGED <<requests, successful, failed>>

\* C1: requests = successful + failed in every state; handling a result
\* that is not a cancellation adds 1 to requests and 1 to exactly one of
\* successful and failed; handling a cancellation, and every other step,
\* leaves the three counters alone
C1_Counters ==
    /\ [](requests = successful + failed)
    /\ [][C1_CountersAction]_vars
C1_Witness ==
    pc = "done" /\ err = "canceled" /\ successful = 1 /\ failed = 1

\* C2: with a count limit K > 0 and no cancellation, requests never exceeds
\* K, the run ends in Done with requests = K and K result lines, and no
\* pacing wait follows the K-th attempt
C2_CountLimit ==
    (count > 0 /\ ~ctxDone) =>
        /\ requests <= count
        /\ ~Running => pc = "done" /\ requests = count /\ lines = count
        /\ pc \in {"select", "poll", "parked"} => requests < count

\* what the step of lines 108-123 does with a cancellation
C3_CanceledAction ==
    HandleStep /\ err = "canceled" =>
        /\ pc' = "done"
        /\ UNCHANGED <<requests, successful, failed, totals, lines, timer, wait>>

\* C3: handling a cancellation error leads to Done at once, with the
\* counters, the totals and the number of result lines unchanged and no
\* timer started
C3_Canceled ==
    /\ [][C3_CanceledAction]_vars
    /\ [](pc = "done" /\ err = "canceled" => lines = requests /\ started = requests + 1)
C3_Witness ==
    pc = "done" /\ err = "canceled" /\ requests = 1 /\ lines = 1 /\ timer = "off"

\* what cancel() does to a parked loop, and what the loop does then
C4_CancelInWaitAction ==
    /\ pc = "parked" /\ woken = "none" /\ ~ctxDone /\ ctxDone' => woken' = "ctx" /\ pc' = "parked"
    /\ pc = "parked" /\ woken = "ctx" =>
          /\ pc' \in {"parked", "done"}
          /\ UNCHANGED <<requests, successful, failed, totals, lines, started>>

\* C4: a cancellation that fires while the loop is parked in the pacing
\* wait (its timer has not readied it) readies it with the ctx.Done() case,
\* and from there the loop goes to Done without another sendRequest call,
\* result line or counter change
C4_CancelInWait == [][C4_CancelInWaitAction]_vars
C4_Witness ==
    pc = "done" /\ woken = "ctx" /\ timer = "armed" /\ requests = 1 /\ started = 1 /\ lines = 1

\* the loop is in a request or parked in the select; the run has used up
\* the sendRequest calls that are explored
AtSuspensionPoint == pc \in {"do", "body", "parked"}
AttemptsExhausted == targetUrl = "unsupported" /\ pc = "loop" /\ ~CanStart

\* C5: once ctx is canceled it stays canceled, and a loop that is in a
\* request or parked in the pacing wait when ctx is canceled reaches Done
\* (or, with a URL the transport refuses whatever the context, the last
\* sendRequest call that is explored)
C5_CancelTerminates ==
    /\ [][ctxDone => ctxDone']_vars
    /\ (ctxDone /\ AtSuspensionPoint /\ targetUrl = "https") ~> (pc = "done")
    /\ (ctxDone /\ AtSuspensionPoint) ~> (pc = "done" \/ AttemptsExhausted)
C5_Witness ==
    pc = "done" /\ ctxDone /\ count = 0 /\ requests = MaxAttempts

\* what a step may do to totals
C6_TotalsAction ==
    totals' = IF /\ HandleStep /\ err = "nil"
                 /\ ~(noNewConnCount /\ statistics.Reused = Some(FALSE))
              THEN Append(totals, ToMilliseconds(statistics.Total[1]))
              ELSE totals

\* C6: totals grows only when a successful result is handled whose
\* connection is not excluded by -no-new-conn-count, and then by that
\* request's total at the end; so it is never longer than successful and
\* as long as successful when the flag is off
C6_Totals ==
    /\ [][C6_TotalsAction]_vars
    /\ [](Len(totals) <= successful /\ (~noNewConnCount => Len(totals) = successful))
C6_Witness ==
    /\ noNewConnCount /\ successful = 2 /\ failed = 0
    /\ totals = <<ToMilliseconds(1200000000)>>
    /\ statistics.Reused = Some(TRUE)

\* the positions of main at which the Statistics of a returned call is read
Returned == pc \in {"returned", "print", "select", "poll", "parked"}

\* C7: whenever sendRequest has returned, Total is set and not negative
C7_TotalPresent ==
    Returned => statistics.Total # Nil /\ statistics.Total[1] >= 0
C7_Witness ==
    pc = "select" /\ err = "failed" /\ statistics.Reused = Nil /\ statistics.Total # Nil

\* max(minDelay - lastTotal, 0) in words wide enough for every uint64
\* number of milliseconds
WideWait(d, total) == MaxZero(SubWord(MulMillisecond(Resize(d, 12)), FromNat(total, 12)))

\* C8: the duration given to time.After is max(delay - total, 0) for every
\* -delay and every total
C8_PacingWait ==
    pc \in {"poll", "parked"} => Resize(wait, 12) = WideWait(delay, statistics.Total[1])

\* the same for the delays whose nanoseconds fit an int64
C8_PacingWaitInRange ==
    (pc \in {"poll", "parked"} /\ delay # DelayHuge) =>
        Resize(wait, 12) = WideWait(delay, statistics.Total[1])

\* what the loop does with a failed request
C9_FailureAction ==
    /\ HandleStep /\ err = "failed" =>
          /\ requests' = requests + 1 /\ failed' = failed + 1
          /\ UNCHANGED <<successful, totals, lines, started>>
          /\ pc' = "print"
    /\ PrintStep /\ err = "failed" =>
          /\ lines' = lines + 1
          /\ UNCHANGED <<requests, successful, failed, totals, started>>
          /\ pc' = IF requests = count THEN "done" ELSE "select"
    /\ pc = "select" /\ pc' # pc /\ err = "failed" =>
          /\ pc' = "poll" /\ timer' = "armed"
          /\ wait' = PacingWait(delay, statistics.Total[1])
    /\ pc \in {"poll", "parked"} /\ err = "failed" /\ ~ctxDone =>
          pc' \in {"poll", "parked", "loop"}
    /\ started' # started => pc = "loop" /\ started' = started + 1

\* C9: a result with an error that is not a cancellation adds 1 to failed
\* and to requests, gets one result line, and the loop goes on as after a
\* success: Done only at the count limit or on cancellation, else the wait
\* of line 161 for this request's total; sendRequest is called only from
\* the head of the loop
C9_Failure == [][C9_FailureAction]_vars
C9_Witness ==
    pc = "do" /\ started = 2 /\ failed = 1 /\ lines = 1 /\ ~ctxDone /\ count = 2

\* C10: while a request is in flight every earlier request is counted and
\* its result line is printed, and at no time is more than one request
\* without its counters or more than one without its line
C10_Sequential ==
    /\ pc \in {"do", "body"} =>
          /\ started = requests + 1
          /\ lines = requests
          /\ Len(totals) <= requests
    /\ started <= requests + 1
    /\ requests <= lines + 1
C10_Witness ==
    pc = "body" /\ started = 2 /\ requests = 1 /\ lines = 1

\* what the step of lines 169-194 prints
C11_ReportAction ==
    summary' # summary =>
        /\ pc = "done" /\ summary = Nil
        /\ summary'[1].Requests = <<requests, successful, failed>>
        /\ summary'[1].Stats # Nil <=> Len(totals) > 0
        /\ UNCHANGED <<requests, successful, failed, totals>>

\* C11: the report after the loop always has the line of the counters; it
\* has the statistics exactly when totals is not empty, and then they are
\* values of totals; with an empty totals (no attempt, only failures, or
\* every success excluded by -no-new-conn-count) there is no statistic, and
\* no zero in its place
C11_Report ==
    /\ [][C11_ReportAction]_vars
    /\ [](summary # Nil =>
            /\ pc = "done"
            /\ summary[1].Requests = <<requests, successful, failed>>
            /\ summary[1].Stats = Nil <=> totals = <<>>
            /\ summary[1].Stats # Nil =>
                  /\ \E i \in 1..Len(totals) : summary[1].Stats[1].Min = totals[i]
                  /\ \E i \in 1..Len(totals) : summary[1].Stats[1].Max = totals[i]
                  /\ \A i \in 1..Len(totals) :
                        /\ Nanoseconds(summary[1].Stats[1].Min) <= Nanoseconds(totals[i])
                        /\ Nanoseconds(totals[i]) <= Nanoseconds(summary[1].Stats[1].Max))
C11_Witness ==
    /\ summary # Nil /\ summary[1].Stats = Nil
    /\ noNewConnCount /\ successful = 1 /\ failed = 1
C11_WitnessStats ==
    /\ summary # Nil /\ summary[1].Stats # Nil
    /\ summary[1].Stats[1].Min # summary[1].Stats[1].Max

\* C12: a sendRequest call whose request cannot be constructed, or whose
\* transport fails before a response, returns to the loop with an error
\* and without Proto and Status, and the loop counts it as failed and goes
\* on; the process does not crash
C12_ErrorReturns ==
    /\ pc # "panic"
    /\ pc = "returned" /\ statistics.Status = "" =>
          err # "nil" /\ statistics.Proto = "" /\ statistics.Total # Nil
    /\ targetUrl = "unparsable" /\ started > 0 /\ pc \notin {"do", "returned"} =>
          failed > 0 /\ requests = failed

\* the same for the target URLs that parse
C12_TransportErrorReturns ==
    targetUrl # "unparsable" =>
        /\ pc # "panic"
        /\ pc = "returned" /\ statistics.Status = "" =>
              err # "nil" /\ statistics.Proto = "" /\ statistics.Total # Nil
        /\ Returned /\ pc # "returned" /\ err = "failed" => failed > 0 /\ lines + 1 >= requests

\* the returned Statistics is that of a call whose body could not be read
BodyFailed == statistics.Status # "" /\ err # "nil"

\* what the return of line 259 keeps, and what Download says of a result
C13_RecordKept ==
    /\ [][pc = "body" /\ pc' = "returned" =>
            \A f \in {"DNS", "Connect", "TLSHandshake", "TTFB", "Reused", "Proto", "Status"} :
                statistics'[f] = statistics[f]]_vars
    /\ [](Returned /\ BodyFailed =>
            /\ statistics.Proto # "" /\ statistics.TTFB # Nil /\ statistics.Reused # Nil
            /\ statistics.Download = Nil)
    /\ [](Returned => (statistics.Download # Nil <=> err = "nil" /\ statistics.Status # ""))

\* C13 as stated: a failed body read returns an error with Proto, Status
\* and the recorded durations kept and without Download, and the attempt
\* is counted as failed with its total left out of totals
C13_BodyFailureCounted ==
    /\ C13_RecordKept
    /\ [][HandleStep /\ BodyFailed =>
            /\ requests' = requests + 1 /\ failed' = failed + 1
            /\ UNCHANGED <<successful, totals>>]_vars

\* C13, amended: as stated when the error of the body read is not the
\* cancellation; when it is (ctx canceled during the download) the attempt
\* is not counted at all and the loop ends
C13_BodyFailure ==
    /\ C13_RecordKept
    /\ [][HandleStep /\ BodyFailed /\ err # "canceled" =>
            /\ requests' = requests + 1 /\ failed' = failed + 1
            /\ UNCHANGED <<successful, totals>>]_vars
    /\ [][HandleStep /\ BodyFailed /\ err = "canceled" =>
            /\ pc' = "done"
            /\ UNCHANGED <<requests, successful, failed, totals, lines>>]_vars
C13_Witness ==
    /\ pc = "print" /\ err = "failed" /\ failed = 1 /\ totals = <<>>
    /\ statistics.Status # "" /\ statistics.DNS # Nil /\ statistics.Download = Nil

\* a result line with an error was printed
ErrorPrinted == lines > 0 /\ err = "failed" /\ pc \notin {"returned", "print"}

\* C14: the message on the result line of a *url.Error is its underlying
\* message, whatever the URL, and the message of an error without the
\* prefix is printed as it is
C14_Normalized ==
    ErrorPrinted =>
        /\ errDetail.Wrapped => errMsg = errDetail.Err
        /\ ~errDetail.Wrapped => errMsg = ErrorString(errDetail)

\* the same for the URLs that hold no colon followed by a space
C14_NormalizedPlainUrl ==
    ErrorPrinted /\ Occurrences(errDetail.URL, <<":", " ">>) = {} =>
        /\ errDetail.Wrapped => errMsg = errDetail.Err
        /\ ~errDetail.Wrapped => errMsg = ErrorString(errDetail)

\* how a run without a count limit may leave the loop
C15_UnboundedAction ==
    count = 0 =>
        /\ PrintStep => pc' = "select"
        /\ pc # "done" /\ pc' = "done" =>
              /\ ctxDone
              /\ \/ pc = "returned" /\ err = "canceled"
                 \/ pc \in {"poll", "parked"}

\* C15: with -count 0 the test of the count limit never ends the loop,
\* whatever the number of counted attempts: after every result line the
\* loop goes on to the pacing wait, and it reaches Done only with ctx
\* canceled, from a request that returned the cancellation or from the
\* pacing wait
C15_Unbounded ==
    /\ [][C15_UnboundedAction]_vars
    /\ [](count = 0 /\ pc = "done" => ctxDone)
C15_Witness ==
    count = 0 /\ requests = MaxAttempts /\ pc = "select" /\ ~ctxDone

\* C16: once sendRequest has returned, no hook writes to the Statistics it
\* returned: the record stays as it is until the next call
C16_Immutable ==
    [][Returned /\ started' = started => statistics' = statistics]_vars

\* C17: a returned Statistics with Reused true has neither Connect nor
\* TLSHandshake
C17_ReusedNoConnect ==
    Returned /\ statistics.Reused = Some(TRUE) =>
        statistics.Connect = Nil /\ statistics.TLSHandshake = Nil

\* C18: a returned Statistics without Reused has none of TTFB, Download,
\* Proto and Status
C18_NoConnNoResponse ==
    Returned /\ statistics.Reused = Nil =>
        /\ statistics.TTFB = Nil /\ statistics.Download = Nil
        /\ statistics.Proto = "" /\ statistics.Status = ""
        /\ err # "nil"
C18_Witness ==
    /\ pc = "print" /\ err = "failed" /\ statistics.Reused = Nil
    /\ statistics.DNS # Nil /\ statistics.Connect # Nil /\ statistics.TLSHandshake # Nil

\* C19: a sendRequest call made after cancel() changes none of requests,
\* successful, failed and totals, and prints no result line
C19_NoCountAfterCancel ==
    [][afterCancel => UNCHANGED <<requests, successful, failed, totals, lines>>]_vars

\* the same for the https URLs, whose round trip looks at the context first
C19_NoCountAfterCancelHttps ==
    [][afterCancel /\ targetUrl = "https" =>
          UNCHANGED <<requests, successful, failed, totals, lines>>]_vars

\* a call made after cancel() is reached through the timer case of the
\* select, taken with ctx.Done() ready as well
C19_LateCallReached ==
    afterCancel /\ targetUrl = "https" /\ pc = "done" /\ err = "canceled" /\ requests = 1

\* what the step of lines 112-123 does with a result without error
C20_CountAction ==
    HandleStep /\ err = "nil" =>
        /\ statistics.Reused # Nil
        /\ pc' = "print"
        /\ successful' = successful + 1

\* C20: a Statistics returned without error has Reused, so the test of
\* line 120 never dereferences nil, with and without -no-new-conn-count
\* and -enable-keep-alive
C20_ReusedPresent ==
    /\ [](Returned /\ err = "nil" => statistics.Reused # Nil)
    /\ [][C20_CountAction]_vars
C20_Witness ==
    /\ noNewConnCount /\ enableKeepAlive /\ pc = "print" /\ err = "nil"
    /\ statistics.Reused = Some(TRUE) /\ successful = 2 /\ Len(totals) = 1

====
